---- MODULE Spec2Model ----
(***************************************************************************)
(* Model of examples/usbcat/device.py: the usbcat pipe between stdin /     *)
(* stdout and one IN and one OUT bulk endpoint.                            *)
(*                                                                         *)
(* State: the stranded-buffer deque of EndpointINFile, the presence of     *)
(* stdin in the epoll set of SubprocessCat.run, the poll batch being       *)
(* dispatched, and the environment (USB lifecycle, transfers held by the   *)
(* device, chunks read so far).  The functionfs package itself (submit,    *)
(* processEvents, the delivery of lifecycle events) is not part of the     *)
(* modelled sources; its behaviour is taken from the specification text    *)
(* and is kept apart in submit, deliverCompletion and LifecycleNext.       *)
(*                                                                         *)
(* The last part models functionfs/tests/device.py: the endpoint threads   *)
(* (EPThread) of the test function and the run lock each of them shares    *)
(* with onEnable.                                                          *)
(***************************************************************************)
EXTENDS Integers, Sequences, FiniteSets, TLC

\* ---------------------------------------------------------------- bounds
MaxBufs == 4        \* chunks read from stdin in one run
MaxInFlight == 2    \* transfers the device holds at once
MaxSink == 2        \* inbound completions observed in one run
MaxIO == 2          \* transfers counted per endpoint thread
MaxLength == 8      \* wLength of an IN setup request
MaxData == 2        \* bytes in the data stage of an OUT setup request

\* ------------------------------------------------------------- constants
ESHUTDOWN == 108
NoBuffer == 0       \* the None returned by onComplete
NoData == <<-1>>    \* the None passed as data on a failed read

Buffers == 1..MaxBufs
OutStatus == {0, 4, -ESHUTDOWN, -5}
InErrStatus == {-5, -ESHUTDOWN}
Payloads == {<<>>, <<104>>, <<111, 107>>}

VARIABLES
    lifecycle,   \* USB lifecycle state of the function
    queue,       \* EndpointINFile.__stranded_buffer_list_queue
    registered,  \* stdin is in the epoll set
    loop,        \* "running", "eof", "interrupted", "error"
    batch,       \* rest of the event list returned by the last poll()
    inflight,    \* transfers accepted by the IN endpoint, not yet completed
    cancelled,   \* how many of the oldest of them a Disable or Unbind cut off
    nextBuf,     \* id of the next chunk read from stdin
    accepted,    \* history: buffers in the order the device accepted them
    stranded,    \* history: arguments of onSubmitEAGAIN since the last clear
    handed,      \* history: buffers returned by onComplete since the last clear
    sink,        \* history: values passed to the writer
    fed,         \* history: payloads of the successful inbound completions
    inFailed,    \* history: an inbound completion has carried an error
    last,        \* what the last handler did
    epLock,      \* test device: EPThread.__run_lock is held, per endpoint
    epPc,        \* test device: where each EPThread is in run()
    epShut,      \* test device: the thread's next transfer fails, ESHUTDOWN
    epIO,        \* test device: transfers done by each thread (capped)
    epStarted,   \* test device: onEnable has been called
    epRaised,    \* test device: onEnable raised (release of an unlocked lock)
    echoPayload, \* test device: FunctionFSTestDevice.__echo_payload
    echoSent,    \* test device: data stage of the last non-empty OUT ECHO
    setup        \* test device: the last setup request and what onSetup did

vars == <<lifecycle, queue, registered, loop, batch, inflight, cancelled, nextBuf,
          accepted, stranded, handed, sink, fed, inFailed, last,
          epLock, epPc, epShut, epIO, epStarted, epRaised,
          echoPayload, echoSent, setup>>

catvars == <<queue, registered, loop, batch, inflight, cancelled, nextBuf,
             accepted, stranded, handed, sink, fed, inFailed, last>>
epvars == <<epLock, epPc, epShut, epIO, epStarted, epRaised>>
setupvars == <<echoPayload, echoSent, setup>>

\* The endpoint threads of the test function, in the order of its
\* thread list: the IN endpoint of a pair, then its OUT endpoint.
EpOrder == <<"IN", "OUT">>
EPs == {EpOrder[i] : i \in DOMAIN EpOrder}

\* The part of the state the outbound callbacks work on, as one record.
\* raised: an exception left the handler; fired: the signals the handler
\* fired, each with the registration it found (was) and left (now);
\* rejected: for each refused submission, the queue it found; popped: a
\* buffer was taken from the queue; ret: onComplete's result; errLogged:
\* the handler traced a completion error.
Ctx ==
    [queue |-> queue, registered |-> registered, inflight |-> inflight,
     accepted |-> accepted, stranded |-> stranded, handed |-> handed,
     raised |-> FALSE, fired |-> <<>>, ret |-> NoBuffer, rejected |-> <<>>,
     popped |-> FALSE, errLogged |-> FALSE]

\* ------------------------------------------------ SubprocessCat callbacks
\* epoll.register raises (EEXIST) on a file that is already registered.
onCanSend(c) ==
    IF c.registered
    THEN [c EXCEPT !.raised = TRUE,
                   !.fired = Append(@, [sig |-> "can", was |-> TRUE, now |-> TRUE, err |-> TRUE])]
    ELSE [c EXCEPT !.registered = TRUE,
                   !.fired = Append(@, [sig |-> "can", was |-> FALSE, now |-> TRUE, err |-> FALSE])]

\* epoll.unregister raises ENOENT on a missing file; it is swallowed.
stopSender(c) ==
    [c EXCEPT !.registered = FALSE,
              !.fired = Append(@, [sig |-> "cannot", was |-> c.registered, now |-> FALSE,
                                  err |-> FALSE])]

\* ------------------------------------------------------- EndpointINFile
\* Variant: "cannot send" fired only by the refusal that finds the queue empty.
onSubmitEAGAIN_edgeOnly(c, buf) ==
    LET queued == [c EXCEPT !.queue = Append(@, buf),
                            !.stranded = Append(@, buf),
                            !.rejected = Append(@, c.queue)]
    IN  IF c.queue = <<>> THEN stopSender(queued) ELSE queued

\* Variant: appendleft() in place of append().
onSubmitEAGAIN_appendLeft(c, buf) ==
    stopSender([c EXCEPT !.queue = <<buf>> \o @,
                         !.stranded = Append(@, buf),
                         !.rejected = Append(@, c.queue)])

onSubmitEAGAIN(c, buf) ==
    stopSender([c EXCEPT !.queue = Append(@, buf),
                         !.stranded = Append(@, buf),
                         !.rejected = Append(@, c.queue)])

forgetStranded(c) ==
    [c EXCEPT !.queue = <<>>, !.stranded = <<>>, !.handed = <<>>]

\* Lines 57-60: a negative status is traced as a completion error.
traceCompletion(c, status) == [c EXCEPT !.errLogged = (status < 0)]

\* Variant: pop() in place of popleft().
EndpointINFile_onComplete_popRight(c, status) ==
    LET t == traceCompletion(c, status)
    IN
    IF status # -ESHUTDOWN /\ t.queue # <<>>
    THEN LET newest == t.queue[Len(t.queue)]
             popped == [t EXCEPT !.queue = SubSeq(@, 1, Len(@) - 1),
                                 !.popped = TRUE]
             sig == IF popped.queue = <<>> THEN onCanSend(popped) ELSE popped
         IN  IF sig.raised
             THEN sig
             ELSE [sig EXCEPT !.ret = newest, !.handed = Append(@, newest)]
    ELSE [t EXCEPT !.ret = NoBuffer]

\* Variant: the status is not looked at.
EndpointINFile_onComplete_anyStatus(c, status) ==
    LET t == traceCompletion(c, status)
    IN
    IF t.queue # <<>>
    THEN LET popped == [t EXCEPT !.queue = Tail(@), !.popped = TRUE]
             sig == IF popped.queue = <<>> THEN onCanSend(popped) ELSE popped
         IN  IF sig.raised
             THEN sig
             ELSE [sig EXCEPT !.ret = Head(t.queue),
                              !.handed = Append(@, Head(t.queue))]
    ELSE [t EXCEPT !.ret = NoBuffer]

EndpointINFile_onComplete(c, status) ==
    LET t == traceCompletion(c, status)
    IN
    IF status # -ESHUTDOWN /\ t.queue # <<>>
    THEN LET popped == [t EXCEPT !.queue = Tail(@), !.popped = TRUE]
             sig == IF popped.queue = <<>> THEN onCanSend(popped) ELSE popped
         IN  IF sig.raised
             THEN sig
             ELSE [sig EXCEPT !.ret = Head(t.queue),
                              !.handed = Append(@, Head(t.queue))]
    ELSE [t EXCEPT !.ret = NoBuffer]

\* ------------------------------------------------------ EndpointOUTFile
tobytes(data) == [i \in 1..Len(data) |-> data[i]]

\* Variant: "if not data" in place of "if data is None".
EndpointOUTFile_onComplete_skipEmpty(s, data) ==
    IF data = NoData \/ data = <<>> THEN s ELSE Append(s, tobytes(data))

\* Variant: the writer is called on the error branch too.
EndpointOUTFile_onComplete_writeOnError(s, data) ==
    IF data = NoData THEN Append(s, <<>>) ELSE Append(s, tobytes(data))

EndpointOUTFile_onComplete(s, data) ==
    IF data = NoData THEN s ELSE Append(s, tobytes(data))

\* ------------------------------------------------- functionfs (library)
\* submit: the device takes the transfer, or refuses it as "would block".
submit(c, buf, accept) ==
    IF accept
    THEN [c EXCEPT !.inflight = Append(@, buf), !.accepted = Append(@, buf)]
    ELSE onSubmitEAGAIN(c, buf)

CanAccept(c) == Len(c.inflight) < MaxInFlight
CanReject(c) == Len(c.inflight) >= 1
Outcomes(c) == {a \in BOOLEAN : IF a THEN CanAccept(c) ELSE CanReject(c)}

\* The status of a completion: -ESHUTDOWN is what a transfer cut off by a
\* Disable or Unbind completes with; such a transfer may also have finished
\* before it was cut off.
StatusOf(cut) == IF cut > 0 THEN OutStatus ELSE OutStatus \ {-ESHUTDOWN}

\* A completion of the oldest transfer: onComplete is called, and the buffer
\* it returns is submitted at once.
deliverCompletion(c, status, accept) ==
    LET freed == [c EXCEPT !.inflight = Tail(@)]
        done == EndpointINFile_onComplete(freed, status)
    IN  IF done.raised \/ done.ret = NoBuffer
        THEN done
        ELSE submit(done, done.ret, accept)

\* ------------------------------------------------------ USBCat callbacks
onEnable(c) == onCanSend(c)
\* Variant: the queue is kept.
onDisable_keepStranded(c) == stopSender(c)

onDisable(c) == stopSender(forgetStranded(c))
onUnbind(c) == stopSender(forgetStranded(c))

\* Variant: Suspend pauses the sender.
onSuspend_pause(c) == stopSender(c)

onSuspend(c) == c
onResume(c) == c

\* ------------------------------------------------------------------ Init
\* b'NOT SET'
NOT_SET == <<78, 79, 84, 32, 83, 69, 84>>

\* FunctionFSTestDevice.__init__: the stored payload; no setup request yet.
InitSetup ==
    /\ echoPayload = NOT_SET
    /\ echoSent = NOT_SET
    /\ setup = [request_type |-> 0, request |-> 0, length |-> 0, data |-> <<>>,
                ep0 |-> [op |-> "init", bytes |-> <<>>],
                payloadBefore |-> NOT_SET, sentBefore |-> NOT_SET]

\* EPThread.__init__: the run lock is created and acquired, then the thread
\* is started and waits for the lock at the top of run().
InitEPThreads ==
    /\ epLock = [e \in EPs |-> TRUE]
    /\ epPc = [e \in EPs |-> "wait"]
    /\ epShut = [e \in EPs |-> FALSE]
    /\ epIO = [e \in EPs |-> 0]
    /\ epStarted = FALSE
    /\ epRaised = FALSE
    /\ InitSetup

Init ==
    /\ lifecycle = "Unbound"
    /\ queue = <<>>
    /\ registered = FALSE
    /\ loop = "running"
    /\ batch = <<>>
    /\ inflight = <<>>
    /\ cancelled = 0
    /\ nextBuf = 1
    /\ accepted = <<>>
    /\ stranded = <<>>
    /\ handed = <<>>
    /\ sink = <<>>
    /\ fed = <<>>
    /\ inFailed = FALSE
    /\ InitEPThreads
    /\ last = [op |-> "init", status |-> 0, data |-> NoData, ret |-> NoBuffer,
               qBefore |-> <<>>, regBefore |-> FALSE, sinkBefore |-> <<>>,
               fired |-> <<>>, rejected |-> <<>>, popped |-> FALSE,
               errLogged |-> FALSE]

\* The record kept of a handler: its input, the state it found, what it did.
Mark(op, status, data, c) ==
    [op |-> op, status |-> status, data |-> data, ret |-> c.ret,
     qBefore |-> queue, regBefore |-> registered, sinkBefore |-> sink,
     fired |-> c.fired, rejected |-> c.rejected, popped |-> c.popped,
     errLogged |-> c.errLogged]

\* Writes the outcome c of an outbound handler back to the variables.
Commit(c, op, status) ==
    /\ queue' = c.queue
    /\ registered' = c.registered
    /\ inflight' = c.inflight
    /\ accepted' = c.accepted
    /\ stranded' = c.stranded
    /\ handed' = c.handed
    /\ loop' = IF c.raised THEN "error" ELSE loop
    /\ last' = Mark(op, status, NoData, c)

\* ------------------------------------------------------------ dispatcher
ReadyLists ==
    {<<"ev">>} \cup
    (IF registered THEN {<<"stdin">>, <<"ev", "stdin">>, <<"stdin", "ev">>} ELSE {})

Poll ==
    /\ loop = "running"
    /\ batch = <<>>
    /\ \E l \in ReadyLists : batch' = l
    /\ last' = Mark("poll", 0, NoData, Ctx)
    /\ UNCHANGED <<epvars, setupvars, cancelled, lifecycle, queue, registered, loop, inflight, nextBuf,
                   accepted, stranded, handed, sink, fed, inFailed>>

Handling(fd) == loop = "running" /\ batch # <<>> /\ Head(batch) = fd

\* Variant: no test for the zero-length read; the empty chunk is submitted.
SenderEOF_submitEmpty ==
    /\ Handling("stdin")
    /\ \E accept \in Outcomes(Ctx) :
          Commit(submit(Ctx, NoBuffer, accept), "eof", 0)
    /\ batch' = Tail(batch)
    /\ UNCHANGED <<epvars, setupvars, cancelled, lifecycle, nextBuf, sink, fed, inFailed>>

\* sender(): a zero-length read raises EOFError, which ends the loop.
SenderEOF ==
    /\ Handling("stdin")
    /\ loop' = "eof"
    /\ batch' = Tail(batch)
    /\ last' = Mark("eof", 0, NoData, Ctx)
    /\ UNCHANGED <<epvars, setupvars, cancelled, lifecycle, queue, registered, inflight, nextBuf,
                   accepted, stranded, handed, sink, fed, inFailed>>

Sender ==
    /\ Handling("stdin")
    /\ nextBuf <= MaxBufs
    /\ \E accept \in Outcomes(Ctx) :
          Commit(submit(Ctx, nextBuf, accept), "sender", 0)
    /\ nextBuf' = nextBuf + 1
    /\ batch' = Tail(batch)
    /\ UNCHANGED <<epvars, setupvars, cancelled, lifecycle, sink, fed, inFailed>>

\* processEvents(): one outbound completion.
OutComplete ==
    /\ Handling("ev")
    /\ inflight # <<>>
    /\ \E status \in StatusOf(cancelled), accept \in BOOLEAN :
          /\ LET done == EndpointINFile_onComplete(
                             [Ctx EXCEPT !.inflight = Tail(@)], status)
             IN  done.raised \/ done.ret = NoBuffer \/ accept \in Outcomes(done)
          /\ Commit(deliverCompletion(Ctx, status, accept), "outComplete", status)
    /\ cancelled' = IF cancelled > 0 THEN cancelled - 1 ELSE 0
    /\ batch' = Tail(batch)
    /\ UNCHANGED <<epvars, setupvars, lifecycle, nextBuf, sink, fed, inFailed>>

\* processEvents(): one inbound completion, with a payload or with an error.
InComplete ==
    /\ Handling("ev")
    /\ Len(fed) < MaxSink
    /\ \E data \in Payloads \cup {NoData} :
          /\ sink' = EndpointOUTFile_onComplete(sink, data)
          /\ fed' = IF data = NoData THEN fed ELSE Append(fed, data)
          /\ inFailed' = (inFailed \/ data = NoData)
          /\ \E status \in (IF data = NoData THEN InErrStatus ELSE {Len(data)}) :
                last' = Mark(IF data = NoData THEN "inError" ELSE "inData",
                             status, data, Ctx)
    /\ batch' = Tail(batch)
    /\ UNCHANGED <<epvars, setupvars, cancelled, lifecycle, queue, registered, loop, inflight, nextBuf,
                   accepted, stranded, handed>>

\* processEvents(): one lifecycle event.  The order of the events is the
\* framework's: Unbound -> Bound -> Enabled <-> Disabled -> Unbound, with
\* Suspended entered from and left to Enabled.
LifecycleNext(from) ==
    CASE from = "Unbound" -> {"Bind"}
      [] from = "Bound" -> {"Enable"}
      [] from = "Enabled" -> {"Disable", "Suspend"}
      [] from = "Suspended" -> {"Resume"}
      [] from = "Disabled" -> {"Enable", "Unbind"}

Event(name) == Handling("ev") /\ name \in LifecycleNext(lifecycle)

EvBind ==
    /\ Event("Bind")
    /\ lifecycle' = "Bound"
    /\ Commit(Ctx, "Bind", 0)
    /\ batch' = Tail(batch)
    /\ UNCHANGED <<epvars, setupvars, cancelled, nextBuf, sink, fed, inFailed>>

EvEnable ==
    /\ Event("Enable")
    /\ lifecycle' = "Enabled"
    /\ Commit(onEnable(Ctx), "Enable", 0)
    /\ batch' = Tail(batch)
    /\ UNCHANGED <<epvars, setupvars, cancelled, nextBuf, sink, fed, inFailed>>

EvDisable ==
    /\ Event("Disable")
    /\ lifecycle' = "Disabled"
    /\ Commit(onDisable(Ctx), "Disable", 0)
    /\ cancelled' = Len(inflight)
    /\ batch' = Tail(batch)
    /\ UNCHANGED <<epvars, setupvars, nextBuf, sink, fed, inFailed>>

EvUnbind ==
    /\ Event("Unbind")
    /\ lifecycle' = "Unbound"
    /\ Commit(onUnbind(Ctx), "Unbind", 0)
    /\ cancelled' = Len(inflight)
    /\ batch' = Tail(batch)
    /\ UNCHANGED <<epvars, setupvars, nextBuf, sink, fed, inFailed>>

EvSuspend ==
    /\ Event("Suspend")
    /\ lifecycle' = "Suspended"
    /\ Commit(onSuspend(Ctx), "Suspend", 0)
    /\ batch' = Tail(batch)
    /\ UNCHANGED <<epvars, setupvars, cancelled, nextBuf, sink, fed, inFailed>>

EvResume ==
    /\ Event("Resume")
    /\ lifecycle' = "Enabled"
    /\ Commit(onResume(Ctx), "Resume", 0)
    /\ batch' = Tail(batch)
    /\ UNCHANGED <<epvars, setupvars, cancelled, nextBuf, sink, fed, inFailed>>

\* KeyboardInterrupt, raised in poll() or between two handlers of a batch,
\* ends the loop.
Interrupt ==
    /\ loop = "running"
    /\ loop' = "interrupted"
    /\ last' = Mark("interrupt", 0, NoData, Ctx)
    /\ UNCHANGED <<epvars, setupvars, cancelled, lifecycle, queue, registered, batch, inflight, nextBuf,
                   accepted, stranded, handed, sink, fed, inFailed>>

Next ==
    \/ Poll
    \/ SenderEOF
    \/ Sender
    \/ OutComplete
    \/ InComplete
    \/ EvBind
    \/ EvEnable
    \/ EvDisable
    \/ EvUnbind
    \/ EvSuspend
    \/ EvResume
    \/ Interrupt

Spec == Init /\ [][Next]_vars

\* The loop with its scheduling: poll() returns again, every handler of a
\* batch is run, and the device goes on completing the transfers it holds.
Dispatch ==
    \/ SenderEOF
    \/ Sender
    \/ OutComplete
    \/ InComplete
    \/ EvBind
    \/ EvEnable
    \/ EvDisable
    \/ EvUnbind
    \/ EvSuspend
    \/ EvResume

SpecFair ==
    /\ Spec
    /\ WF_vars(Poll)
    /\ WF_vars(Dispatch)
    /\ SF_vars(OutComplete)

TypeOK ==
    /\ lifecycle \in {"Unbound", "Bound", "Enabled", "Suspended", "Disabled"}
    /\ registered \in BOOLEAN
    /\ loop \in {"running", "eof", "interrupted", "error"}
    /\ nextBuf \in 1..(MaxBufs + 1)
    /\ Len(inflight) <= MaxInFlight
    /\ cancelled \in 0..Len(inflight)
    /\ epLock \in [EPs -> BOOLEAN]
    /\ epPc \in [EPs -> {"wait", "io", "exit"}]
    /\ epShut \in [EPs -> BOOLEAN]
    /\ epIO \in [EPs -> 0..MaxIO]
    /\ epStarted \in BOOLEAN
    /\ epRaised \in BOOLEAN
    /\ Len(echoPayload) <= Len(NOT_SET)
    /\ setup.ep0.op \in {"init", "write", "read", "none", "halt", "super"}

\* ------------------------------------------- the outbound adapter alone
\* EndpointINFile driven directly: any interleaving of refused submissions
\* (onSubmitEAGAIN) and completions (onComplete), wired to the callbacks of
\* SubprocessCat.
InitFifo ==
    /\ lifecycle = "Enabled"
    /\ queue = <<>>
    /\ registered \in BOOLEAN
    /\ loop = "running"
    /\ batch = <<>>
    /\ inflight = <<>>
    /\ cancelled = 0
    /\ nextBuf = 1
    /\ accepted = <<>>
    /\ stranded = <<>>
    /\ handed = <<>>
    /\ sink = <<>>
    /\ fed = <<>>
    /\ inFailed = FALSE
    /\ InitEPThreads
    /\ last = [op |-> "init", status |-> 0, data |-> NoData, ret |-> NoBuffer,
               qBefore |-> <<>>, regBefore |-> registered, sinkBefore |-> <<>>,
               fired |-> <<>>, rejected |-> <<>>, popped |-> FALSE,
               errLogged |-> FALSE]

FifoReject ==
    /\ loop = "running"
    /\ Len(stranded) < MaxBufs
    /\ \E buf \in Buffers : Commit(onSubmitEAGAIN(Ctx, buf), "reject", 0)
    /\ UNCHANGED <<epvars, setupvars, cancelled, lifecycle, batch, nextBuf, sink, fed, inFailed>>

FifoComplete ==
    /\ loop = "running"
    /\ \E status \in OutStatus :
          Commit(EndpointINFile_onComplete(Ctx, status), "complete", status)
    /\ UNCHANGED <<epvars, setupvars, cancelled, lifecycle, batch, nextBuf, sink, fed, inFailed>>

NextFifo == FifoReject \/ FifoComplete

SpecFifo == InitFifo /\ [][NextFifo]_vars

\* ------------------------------------- test device: endpoint threads
\* EPThread.start(): threading.Lock.release raises RuntimeError on a lock
\* that is not held.
EPThread_start(st, e) ==
    IF st.raised THEN st
    ELSE IF st.lock[e]
    THEN [st EXCEPT !.lock[e] = FALSE]
    ELSE [st EXCEPT !.raised = TRUE]

RECURSIVE startAll(_, _)
startAll(st, i) ==
    IF i > Len(EpOrder) THEN st ELSE startAll(EPThread_start(st, EpOrder[i]), i + 1)

\* FunctionFSTestDevice.onEnable: thread.start() for every thread, in order.
TestDevice_onEnable(lock) == startAll([lock |-> lock, raised |-> FALSE], 1)

TestEvent(name) == ~epRaised /\ name \in LifecycleNext(lifecycle)

TestEnable ==
    /\ TestEvent("Enable")
    /\ lifecycle' = "Enabled"
    /\ LET st == TestDevice_onEnable(epLock)
       IN  epLock' = st.lock /\ epRaised' = st.raised
    /\ epStarted' = TRUE
    /\ UNCHANGED <<catvars, setupvars, epPc, epShut, epIO>>

\* Disabling the function shuts its endpoints down: the transfer a thread
\* is in fails with ESHUTDOWN.
shutdownEndpoints(shut, pc) == [e \in EPs |-> shut[e] \/ pc[e] = "io"]

\* onDisable only prints.
TestDisable ==
    /\ TestEvent("Disable")
    /\ lifecycle' = "Disabled"
    /\ epShut' = shutdownEndpoints(epShut, epPc)
    /\ UNCHANGED <<catvars, setupvars, epLock, epPc, epIO, epStarted, epRaised>>

TestOther ==
    /\ \E name \in {"Bind", "Unbind", "Suspend", "Resume"} :
          /\ TestEvent(name)
          /\ lifecycle' = CASE name = "Bind" -> "Bound"
                            [] name = "Unbind" -> "Unbound"
                            [] name = "Suspend" -> "Suspended"
                            [] name = "Resume" -> "Enabled"
    /\ UNCHANGED <<catvars, setupvars, epvars>>

\* run(), line 61: run_lock.acquire() returns once the lock is free.
EpAcquire ==
    /\ \E e \in EPs :
          /\ epPc[e] = "wait"
          /\ ~epLock[e]
          /\ epLock' = [epLock EXCEPT ![e] = TRUE]
          /\ epPc' = [epPc EXCEPT ![e] = "io"]
    /\ UNCHANGED <<catvars, setupvars, lifecycle, epShut, epIO, epStarted, epRaised>>

\* run(), lines 64-73: one transfer; it goes through while the function is
\* enabled (EINTR and EAGAIN leave everything as it is).
EpTransfer ==
    /\ \E e \in EPs :
          /\ epPc[e] = "io"
          /\ ~epShut[e]
          /\ lifecycle \in {"Enabled", "Suspended"}
          /\ epIO[e] < MaxIO
          /\ epIO' = [epIO EXCEPT ![e] = @ + 1]
    /\ UNCHANGED <<catvars, setupvars, lifecycle, epLock, epPc, epShut, epStarted, epRaised>>

\* run(), lines 67-69: ESHUTDOWN breaks out of the transfer loop.
EpShutdown ==
    /\ \E e \in EPs :
          /\ epPc[e] = "io"
          /\ epShut[e]
          /\ epShut' = [epShut EXCEPT ![e] = FALSE]
          /\ epPc' = [epPc EXCEPT ![e] = "exit"]
    /\ UNCHANGED <<catvars, setupvars, lifecycle, epLock, epIO, epStarted, epRaised>>

\* run(), lines 74-75: run_lock.acquire(False) takes the lock if it is free,
\* and the thread is back at line 61.
EpExit ==
    /\ \E e \in EPs :
          /\ epPc[e] = "exit"
          /\ epLock' = [epLock EXCEPT ![e] = TRUE]
          /\ epPc' = [epPc EXCEPT ![e] = "wait"]
    /\ UNCHANGED <<catvars, setupvars, lifecycle, epShut, epIO, epStarted, epRaised>>

NextEP ==
    \/ TestEnable
    \/ TestDisable
    \/ TestOther
    \/ EpAcquire
    \/ EpTransfer
    \/ EpShutdown
    \/ EpExit

SpecEP == Init /\ [][NextEP]_vars

\* ------------------------------------- test device: setup requests
\* functionfs.ch9 and tests/common.py
USB_DIR_IN == 128
USB_TYPE_MASK == 96
USB_TYPE_VENDOR == 64
REQUEST_ECHO == 1

\* x & y on the 8 bits of bmRequestType
RECURSIVE BitAnd(_, _, _)
BitAnd(x, y, bits) ==
    IF bits = 0 THEN 0
    ELSE (x % 2) * (y % 2) + 2 * BitAnd(x \div 2, y \div 2, bits - 1)

\* payload[:length]
Slice(payload, length) ==
    SubSeq(payload, 1, IF length < Len(payload) THEN length ELSE Len(payload))

\* ep0.write, ep0.read and ep0.halt: what onSetup does on endpoint zero.
\* read(length) returns the data stage of the request.
ep0_write(bytes) == [op |-> "write", bytes |-> bytes]
ep0_read(data, length) == [op |-> "read", bytes |-> Slice(data, length)]
ep0_halt == [op |-> "halt", bytes |-> <<>>]
ep0_none == [op |-> "none", bytes |-> <<>>]
\* Function.onSetup of the library, for requests that are not vendor
\* requests: its handling of endpoint zero is left open here.
super_onSetup == [op |-> "super", bytes |-> <<>>]

\* Variant: an OUT ECHO stores what it reads whatever the length.
onSetup_storeEmpty(payload, request_type, request, length, data) ==
    IF BitAnd(request_type, USB_TYPE_MASK, 8) = USB_TYPE_VENDOR
    THEN IF request = REQUEST_ECHO
         THEN IF BitAnd(request_type, USB_DIR_IN, 8) = USB_DIR_IN
              THEN [payload |-> payload, ep0 |-> ep0_write(Slice(payload, length))]
              ELSE LET r == ep0_read(data, length)
                   IN  [payload |-> r.bytes, ep0 |-> r]
         ELSE [payload |-> payload, ep0 |-> ep0_halt]
    ELSE [payload |-> payload, ep0 |-> super_onSetup]

\* Variant: an IN ECHO writes the whole stored payload.
onSetup_noSlice(payload, request_type, request, length, data) ==
    IF BitAnd(request_type, USB_TYPE_MASK, 8) = USB_TYPE_VENDOR
    THEN IF request = REQUEST_ECHO
         THEN IF BitAnd(request_type, USB_DIR_IN, 8) = USB_DIR_IN
              THEN [payload |-> payload, ep0 |-> ep0_write(payload)]
              ELSE IF length # 0
              THEN LET r == ep0_read(data, length)
                   IN  [payload |-> r.bytes, ep0 |-> r]
              ELSE [payload |-> payload, ep0 |-> ep0_none]
         ELSE [payload |-> payload, ep0 |-> ep0_halt]
    ELSE [payload |-> payload, ep0 |-> super_onSetup]

\* FunctionFSTestDevice.onSetup
onSetup(payload, request_type, request, length, data) ==
    IF BitAnd(request_type, USB_TYPE_MASK, 8) = USB_TYPE_VENDOR
    THEN IF request = REQUEST_ECHO
         THEN IF BitAnd(request_type, USB_DIR_IN, 8) = USB_DIR_IN
              THEN [payload |-> payload, ep0 |-> ep0_write(Slice(payload, length))]
              ELSE IF length # 0
              THEN LET r == ep0_read(data, length)
                   IN  [payload |-> r.bytes, ep0 |-> r]
              ELSE [payload |-> payload, ep0 |-> ep0_none]
         ELSE [payload |-> payload, ep0 |-> ep0_halt]
    ELSE [payload |-> payload, ep0 |-> super_onSetup]

\* The setup requests a host sends: bmRequestType by direction, type and
\* recipient; an OUT request carries a data stage of wLength bytes.
VendorOut == {64, 65}
VendorIn == {192, 193}
NotVendor == {33, 128}
RequestTypes == VendorOut \cup VendorIn \cup NotVendor
InTypes == VendorIn \cup {128}
Requests == {REQUEST_ECHO, 2}
EchoBytes == {65, 66}
RECURSIVE SeqsUpTo(_)
SeqsUpTo(n) ==
    IF n = 0 THEN {<<>>}
    ELSE LET shorter == SeqsUpTo(n - 1)
         IN  shorter \cup {Append(d, b) : d \in {x \in shorter : Len(x) = n - 1}, b \in EchoBytes}
DataStages == SeqsUpTo(MaxData)

\* processEvents hands one setup request to onSetup.
SetupRequest ==
    /\ ~epRaised
    /\ lifecycle \in {"Enabled", "Suspended"}
    /\ \E request_type \in RequestTypes, request \in Requests :
       \E stage \in IF request_type \in InTypes
                    THEN {[length |-> n, data |-> <<>>] : n \in 0..MaxLength}
                    ELSE {[length |-> Len(d), data |-> d] : d \in DataStages} :
          LET data == stage.data
              length == stage.length
              r == onSetup(echoPayload, request_type, request, length, data)
          IN  /\ echoPayload' = r.payload
              /\ echoSent' = IF /\ request_type \in VendorOut
                                /\ request = REQUEST_ECHO
                                /\ data # <<>>
                             THEN data ELSE echoSent
              /\ setup' = [request_type |-> request_type, request |-> request,
                           length |-> length, data |-> data, ep0 |-> r.ep0,
                           payloadBefore |-> echoPayload, sentBefore |-> echoSent]
    /\ UNCHANGED <<catvars, epvars, lifecycle>>

\* The thread of processEvents alone: setup requests between the lifecycle
\* events; the endpoint threads do not touch the stored payload.
NextSetup ==
    \/ SetupRequest
    \/ TestEnable
    \/ TestDisable
    \/ TestOther

SpecSetup == Init /\ [][NextSetup]_vars

\* ---------------------------------------------------------------- claims
CountSig(f, s) == Cardinality({i \in DOMAIN f : f[i].sig = s})

\* C1 (P1, FIFO order): the buffers refused by the device are handed back by
\* onComplete in the order they were refused, each once: at every moment the
\* buffers handed back so far, followed by the queue, are exactly the
\* buffers refused so far.
C1_FifoOrder == handed \o queue = stranded

C1_Witness ==
    /\ Len(handed) >= 3
    /\ queue = <<>>
    /\ handed[1] # handed[2]

C3_ShutdownDiscard ==
    (last.op = "outComplete" /\ last.status = -ESHUTDOWN) =>
        /\ last.ret = NoBuffer
        /\ ~last.popped
        /\ queue = last.qBefore
        /\ last.fired = <<>>

C3_Witness ==
    /\ last.op = "outComplete"
    /\ last.status = -ESHUTDOWN
    /\ Len(last.qBefore) >= 2

\* C4 (P4, disable resets): right after a Disable event the queue is empty
\* and stdin is not registered.
C4_DisableResets ==
    last.op = "Disable" => (queue = <<>> /\ ~registered)

C4_Witness ==
    /\ last.op = "Disable"
    /\ last.qBefore # <<>>
    /\ last.regBefore

\* C5 (P5, pass-through): the writer has received exactly the payloads of
\* the successful inbound completions, one call each, in their order.
C5_PassThrough == sink = fed

C5_Witness ==
    /\ Len(sink) = MaxSink
    /\ sink[1] # sink[2]
    /\ \E i \in DOMAIN sink : sink[i] = <<>>

\* C6: a non-empty queue implies that stdin is not registered.
C6_QueueImpliesMasked == queue # <<>> => ~registered

\* C7: "can send" is never fired while stdin is registered, so the loop is
\* never ended by a duplicate registration.
C7_NoDuplicateRegistration ==
    /\ \A i \in DOMAIN last.fired :
          ~(last.fired[i].sig = "can" /\ last.fired[i].was)
    /\ loop # "error"

\* C8: a signal that finds the registration already in the state it asks
\* for leaves it unchanged and raises no error.
C8_Idempotent ==
    \A i \in DOMAIN last.fired :
        LET f == last.fired[i]
        IN  ((f.sig = "can" /\ f.was) \/ (f.sig = "cannot" /\ ~f.was)) =>
                (f.now = f.was /\ ~f.err)

\* C9: the device accepts buffers in the order they were read from stdin.
C9_AcceptedInReadOrder ==
    \A i, j \in DOMAIN accepted : i < j => accepted[i] < accepted[j]

\* C10 (scenario D): a failed inbound completion calls the writer for
\* nothing and leaves the loop running; a successful one after it still
\* passes its payload to the writer unchanged.
C10_InboundFailure ==
    /\ last.op = "inError" => (sink = last.sinkBefore /\ loop = "running")
    /\ (last.op = "inData" /\ inFailed) =>
           (sink = Append(last.sinkBefore, last.data) /\ loop = "running")

C10_Witness ==
    /\ last.op = "inData"
    /\ inFailed
    /\ last.data = <<111, 107>>
    /\ sink # <<>>
    /\ sink[Len(sink)] = <<111, 107>>

\* C11 (loop termination): a zero-length read ends the loop as "eof" with
\* nothing submitted or queued for it, an interrupt ends it as
\* "interrupted", neither as an error, and once the loop has ended no
\* handler runs any more, whatever is left of the poll batch.
C11_CleanTermination ==
    [][/\ last'.op = "eof" =>
              /\ loop' = "eof"
              /\ accepted' = accepted
              /\ inflight' = inflight
              /\ queue' = queue
              /\ nextBuf' = nextBuf
       /\ last'.op = "interrupt" => loop' = "interrupted"
       /\ loop # "running" => UNCHANGED vars]_vars

C11_Witness ==
    /\ loop = "eof"
    /\ last.op = "eof"
    /\ batch = <<"ev">>
    /\ inflight # <<>>

\* C12 (no deadlock under backpressure): from a state with a non-empty
\* queue and stdin masked, the loop gets to an empty queue with stdin
\* registered again, unless the function leaves Enabled or the loop ends.
C12_NoDeadlock ==
    (queue # <<>> /\ ~registered /\ loop = "running") ~>
        \/ (queue = <<>> /\ registered)
        \/ lifecycle \notin {"Enabled", "Suspended"}
        \/ loop # "running"

\* C13 (no unbounded buffering): the queue never holds more than two
\* buffers.
C13_QueueBound == Len(queue) <= 2

C13_Witness ==
    /\ Len(queue) = 2
    /\ last.op = "sender"
    /\ Len(last.qBefore) = 1

\* What a handler left of the queue it found, before anything was appended:
\* all of it; all but the oldest buffer when it dequeued one; nothing when
\* it is one of the handlers named in clearing.
KeptOfQueue(clearing) ==
    IF last.op \in clearing THEN <<>>
    ELSE IF last.popped THEN Tail(last.qBefore)
    ELSE last.qBefore

QueueChangedOnlyBy(clearing) ==
    LET kept == KeptOfQueue(clearing)
    IN  /\ Len(queue) = Len(kept) + Len(last.rejected)
        /\ SubSeq(queue, 1, Len(kept)) = kept
        /\ last.rejected # <<>> => last.op \in {"sender", "outComplete"}
        /\ last.popped =>
               /\ last.op = "outComplete"
               /\ last.status # -ESHUTDOWN
               /\ \/ last.ret = Head(last.qBefore)
                  \/ \E i \in DOMAIN last.fired : last.fired[i].err

C15_ShutdownSilent ==
    last.op = "outComplete" =>
        (last.errLogged <=> (last.status < 0 /\ last.status # -ESHUTDOWN))

\* C16: stdin is registered only while the function is Enabled or
\* Suspended.
C16_RegisteredOnlyEnabled ==
    registered => lifecycle \in {"Enabled", "Suspended"}

\* C17 (no read while full): sender() is invoked only while stdin is
\* registered, that is, never between a "cannot send" and the next "can
\* send".
C17_NoReadWhileMasked ==
    last.op \in {"sender", "eof"} => last.regBefore

\* C18 (Suspend and Resume are frame-preserving): each leaves the
\* registration of stdin and the queue as it found them and fires no signal.
C18_SuspendResumeFrame ==
    last.op \in {"Suspend", "Resume"} =>
        /\ queue = last.qBefore
        /\ registered = last.regBefore
        /\ last.fired = <<>>

C18_Witness ==
    /\ last.op = "Resume"
    /\ Len(queue) = 2
    /\ ~registered
    /\ inflight # <<>>

\* C19 (endpoint threads, no lost wake-up): no thread does a transfer
\* before the first onEnable, and no thread sits at run_lock.acquire() with
\* the lock held while the function is enabled, where only a further
\* onEnable could let it back into its transfer loop.
C19_NoLostWakeup ==
    /\ ~epStarted => \A e \in EPs : epIO[e] = 0 /\ epPc[e] = "wait"
    /\ \A e \in EPs :
          ~(/\ lifecycle \in {"Enabled", "Suspended"}
            /\ ~epRaised
            /\ epPc[e] = "wait"
            /\ epLock[e])

\* C20 (run-lock discipline): onEnable never raises by releasing a run lock
\* that is not held.
C20_ReleaseOnlyHeld == ~epRaised

\* C21 (vendor ECHO round trip): an IN ECHO of length n writes the first n
\* bytes of what the last non-empty OUT ECHO sent (b'NOT SET' if none did)
\* and keeps the stored payload; an OUT ECHO of length 0 keeps the stored
\* payload; any other vendor request halts endpoint zero and keeps the
\* stored payload.
C21_EchoRoundTrip ==
    LET vendor == setup.request_type \in VendorIn \cup VendorOut
        echo == vendor /\ setup.request = REQUEST_ECHO
        n == setup.length
        first == [i \in 1..(IF n < Len(setup.sentBefore) THEN n ELSE Len(setup.sentBefore))
                     |-> setup.sentBefore[i]]
    IN  setup.ep0.op # "init" =>
          /\ (echo /\ setup.request_type \in VendorIn) =>
                /\ setup.ep0.op = "write"
                /\ setup.ep0.bytes = first
                /\ echoPayload = setup.payloadBefore
          /\ (echo /\ setup.request_type \in VendorOut /\ n = 0) =>
                echoPayload = setup.payloadBefore
          /\ (vendor /\ ~echo) =>
                /\ setup.ep0.op = "halt"
                /\ echoPayload = setup.payloadBefore
          /\ echoPayload = echoSent

\* C21 witness: an IN ECHO shorter than the payload a previous OUT ECHO
\* stored has been answered with a proper prefix of it.
C21_Witness ==
    /\ setup.ep0.op = "write"
    /\ setup.sentBefore # NOT_SET
    /\ Len(setup.sentBefore) = 2
    /\ setup.length = 1
    /\ setup.ep0.bytes = <<setup.sentBefore[1]>>
====
